---- MODULE Spec2Model ----
(***************************************************************************)
(* Portfolio web server (fpatron/website).                                 *)
(*                                                                         *)
(*   cmd/server/main.go : main, loggingMiddleware, responseWriter          *)
(*   internal/handler   : New, loadJSON, execute, Index, About, Projects,  *)
(*                        Interests, Contact, Health                       *)
(*                                                                         *)
(* The model follows the process from the start of main to its exit: the   *)
(* start-up sequence, the serving goroutine, the connections the server    *)
(* holds, the request pipeline (logging wrapper, ServeMux, handler) and the *)
(* signal-driven shutdown.  The embedded file system, the requests, the    *)
(* point at which a template execution fails, the outcome of net.Listen and *)
(* the arrival of signals and of the shutdown deadline are inputs.         *)
(***************************************************************************)
EXTENDS Integers, Sequences, FiniteSets, TLC

VARIABLES
    fsys,        \* portfolio.FS: templates, data/*.json, static tree (read-only input)
    mainPc,      \* position of main()
    h,           \* the *Handler returned by handler.New (NoHandler until then)
    srvPc,       \* position of the goroutine running srv.ListenAndServe
    listener,    \* "none" (never opened), "open", "closed"
    inShutdown,  \* srv.inShutdown
    stop,        \* the buffered channel `stop` holds a signal
    ctxDone,     \* the 10 s shutdown context has expired
    exit,        \* "running", or how the process ended
    log,         \* lines main and the serving goroutine have logged
    active,      \* connections with a request in flight
    idle,        \* connections whose request has been answered (keep-alive)
    last         \* the exchange completed last: request, response on the wire, log lines

vars == <<fsys, mainPc, h, srvPc, listener, inShutdown, stop, ctxDone, exit,
          log, active, idle, last>>

---------------------------------------------------------------------------
(* Bounds *)

\* files of the embedded tree that deviate from a well-formed bundle
MaxFaults == 1
\* writes a template execution makes to the response when it succeeds
MaxWrites == 2
\* connections the server holds at once
MaxConns == 2

---------------------------------------------------------------------------
(* The data model: part_000 lines 12-62 *)

Fixtures == {"about", "projects", "interests", "skills", "experience"}

\* json tags of the struct each fixture decodes into (skills is a []string)
Keys(f) ==
    CASE f = "about" ->
           {"name", "tagline", "bio", "location", "availability",
            "years_of_experience", "email", "github", "linkedin", "x",
            "profile_photo"}
      [] f = "projects" -> {"title", "description", "tags", "link", "image"}
      [] f = "interests" -> {"emoji", "label", "description"}
      [] f = "experience" ->
           {"role", "company", "company_url", "logo", "start_date",
            "end_date", "description", "type"}
      [] OTHER -> {}

IsList(f) == f # "about"

\* the Go zero value of a field
ZeroVal(f, k) ==
    CASE k = "availability" -> FALSE
      [] k = "years_of_experience" -> 0
      [] k = "tags" -> <<>>
      [] k = "description" /\ f = "experience" -> <<>>
      [] OTHER -> ""

\* a value of the field's type as the bundled file gives it
FileVal(f, k, i) ==
    CASE k = "availability" -> TRUE
      [] k = "years_of_experience" -> 6 + i
      [] k = "tags" -> <<"go">>
      [] k = "description" /\ f = "experience" -> <<"built it">>
      [] OTHER -> k \o ToString(i)

\* the key a file with a missing field leaves out
DroppedKey(f) ==
    CASE f = "about" -> "name"
      [] f = "projects" -> "title"
      [] f = "interests" -> "label"
      [] f = "experience" -> "role"
      [] OTHER -> ""

\* one JSON object of fixture f, its i-th, without the keys in `drop`
JSONObject(f, i, drop) == [k \in Keys(f) \ drop |-> FileVal(f, k, i)]

\* the JSON value a file of fixture f holds; kind "missing" drops a key of
\* its first object
JSONValue(f, kind) ==
    LET drop == IF kind = "missing" THEN {DroppedKey(f)} ELSE {}
    IN  CASE f = "about" -> JSONObject(f, 1, drop)
          [] f = "skills" -> <<"go", "htmx">>
          [] f = "projects" -> <<JSONObject(f, 1, drop), JSONObject(f, 2, {})>>
          [] OTHER -> <<JSONObject(f, 1, drop)>>

FileKinds(f) ==
    {"ok", "absent", "syntax", "type", "trailing"}
        \cup (IF f = "skills" THEN {} ELSE {"missing"})

\* a file data/<f>.json of the embedded tree
File(f, kind) ==
    [ exists   |-> kind # "absent",
      syntaxOk |-> kind # "syntax",       \* its first JSON value is well formed
      typeOk   |-> kind # "type",         \* every value has its field's JSON type
      trailing |-> kind = "trailing",     \* text follows the first JSON value
      json     |-> JSONValue(f, kind) ]

\* what can be wrong with the embedded tree: the templates, the static
\* directory, or one of the data files
Deviations ==
    { <<"templates", "bad">>, <<"static", "bad">> }
        \cup { d \in Fixtures \X {"absent", "syntax", "type", "trailing",
                                    "missing"} : d[2] \in FileKinds(d[1]) }

RECURSIVE UpTo(_, _)
\* the subsets of S of at most n elements
UpTo(S, n) ==
    IF n = 0 THEN {{}}
    ELSE LET smaller == UpTo(S, n - 1)
         IN  smaller \cup { T \cup {x} : T \in smaller, x \in S }

\* the embedded tree with the deviations D (one at most for each file)
FileSystem(D) ==
    [ tmplOk   |-> <<"templates", "bad">> \notin D,
      staticOk |-> <<"static", "bad">> \notin D,
      data     |-> [f \in Fixtures |->
                      IF \E d \in D : d[1] = f
                      THEN File(f, (CHOOSE d \in D : d[1] = f)[2])
                      ELSE File(f, "ok")] ]

\* the embedded trees the model starts from: at most MaxFaults deviations
FileSystems ==
    { FileSystem(D) :
        D \in { E \in UpTo(Deviations, MaxFaults) :
                  \A d, e \in E : d[1] = e[1] => d = e } }

---------------------------------------------------------------------------
(* handler.New and loadJSON: part_000 lines 71-121 *)

\* json.Decoder.Decode into a struct: a key the object lacks leaves the
\* field at its zero value; no key is required
DecodeObject(f, obj) ==
    [k \in Keys(f) |-> IF k \in DOMAIN obj THEN obj[k] ELSE ZeroVal(f, k)]

DecodeValue(f, json) ==
    CASE f = "about" -> DecodeObject(f, json)
      [] f = "skills" -> json
      [] OTHER -> [i \in 1..Len(json) |-> DecodeObject(f, json[i])]

\* the variable New declares before it calls loadJSON
Undecoded(f) ==
    IF IsList(f) THEN <<>> ELSE [k \in Keys(f) |-> ZeroVal(f, k)]

\* loadJSON ignoring the error Decode returns
LoadJSONNoDecodeError(fs, f) ==
    LET file == fs.data[f]
    IN  IF ~file.exists
        THEN [err |-> "open", v |-> Undecoded(f)]
        ELSE [err |-> "", v |-> DecodeValue(f, file.json)]

\* loadJSON: Open, then Decode of the first JSON value of the file; what
\* follows that value is never read
loadJSON(fs, f) ==
    LET file == fs.data[f]
    IN  IF ~file.exists
        THEN [err |-> "open", v |-> Undecoded(f)]
        ELSE IF ~file.syntaxOk
        THEN [err |-> "syntax", v |-> Undecoded(f)]
        ELSE IF ~file.typeOk
        THEN [err |-> "type", v |-> Undecoded(f)]
        ELSE [err |-> "", v |-> DecodeValue(f, file.json)]

NoHandler == [nil |-> TRUE]

PageData(about, projects, interests, skills, experience) ==
    [ About |-> about, Projects |-> projects, Interests |-> interests,
      Skills |-> skills, Experience |-> experience ]

Failed(what) == [h |-> NoHandler, err |-> what]

\* handler.New: ParseFS, then the five loads in order, each returning early
New(fs) ==
    LET about      == loadJSON(fs, "about")
        projects   == loadJSON(fs, "projects")
        interests  == loadJSON(fs, "interests")
        skills     == loadJSON(fs, "skills")
        experience == loadJSON(fs, "experience")
    IN  IF ~fs.tmplOk THEN Failed("parse templates")
        ELSE IF about.err # "" THEN Failed("load about.json")
        ELSE IF projects.err # "" THEN Failed("load projects.json")
        ELSE IF interests.err # "" THEN Failed("load interests.json")
        ELSE IF skills.err # "" THEN Failed("load skills.json")
        ELSE IF experience.err # "" THEN Failed("load experience.json")
        ELSE [ h |-> [ nil |-> FALSE,
                       tmpl |-> "templates/*.html",
                       pageData |-> PageData(about.v, projects.v, interests.v,
                                             skills.v, experience.v) ],
               err |-> "" ]

---------------------------------------------------------------------------
(* Requests *)

Methods == {"GET", "HEAD", "POST", "PUT"}

\* A path is its sequence of segments as ServeMux splits it: "/" is <<"">>,
\* "/static/" is <<"static", "">>, "//health" is <<"", "health">>.
RootPath        == <<"">>
AboutPath       == <<"partials", "about">>
ProjectsPath    == <<"partials", "projects">>
InterestsPath   == <<"partials", "interests">>
HealthPath      == <<"health">>
ContactPath     == <<"contact">>
StaticDirPath   == <<"static">>
StylePath       == <<"static", "css", "style.css">>
MissingPath     == <<"static", "css", "missing.css">>
NoSuchPagePath  == <<"no-such-page">>
UncleanPath     == <<"", "health">>

Paths ==
    { RootPath, AboutPath, ProjectsPath, InterestsPath, HealthPath,
      ContactPath, StaticDirPath, StylePath, MissingPath, NoSuchPagePath,
      UncleanPath }

\* files below static/ in the embedded tree
StaticFiles == { <<"css", "style.css">> }

FormKeys == {"name", "email", "message"}

FormEncoded == "application/x-www-form-urlencoded"

\* the key=value pairs a body carries
FieldSets ==
    { [k \in ks |-> v[k]] :
        ks \in SUBSET FormKeys,
        v \in [ name    : {"Jane"},
                email   : {"jane@x.com"},
                message : {"", "hi"} ] }

FullFields == [name |-> "Jane", email |-> "jane@x.com", message |-> "hi"]

NoForm ==
    [ct |-> "", bodyOk |-> TRUE, queryOk |-> TRUE, fields |-> <<>>]

\* what a client posts: the Content-Type header, whether the body is
\* well-formed urlencoded text, whether the URL's query is, and the pairs
Forms ==
    { [ct |-> FormEncoded, bodyOk |-> TRUE, queryOk |-> TRUE, fields |-> fs] :
        fs \in FieldSets }
    \cup { [ct |-> FormEncoded, bodyOk |-> FALSE, queryOk |-> TRUE,
            fields |-> FullFields],
           [ct |-> FormEncoded, bodyOk |-> TRUE, queryOk |-> FALSE,
            fields |-> FullFields],
           [ct |-> "application/json", bodyOk |-> FALSE, queryOk |-> TRUE,
            fields |-> FullFields],
           [ct |-> "multipart/form-data", bodyOk |-> FALSE, queryOk |-> TRUE,
            fields |-> FullFields],
           [ct |-> "malformed", bodyOk |-> TRUE, queryOk |-> TRUE,
            fields |-> FullFields] }

\* a body is read by Contact alone: other requests carry none
Requests ==
    { [method |-> m, path |-> p, form |-> NoForm] :
        m \in Methods, p \in Paths }
    \cup { [method |-> "POST", path |-> ContactPath, form |-> f] : f \in Forms }

\* how a template execution ends: all MaxWrites writes made, or an error
\* after `after` of them (a template error, or a failed write to the client)
Executions ==
    { [fails |-> FALSE, after |-> MaxWrites] }
        \cup { [fails |-> TRUE, after |-> k] : k \in 0..MaxWrites }

---------------------------------------------------------------------------
(* net/http's response and main.go's responseWriter: main.go lines 17-25 *)

\* the server's response for a request: the header map's Content-Type, and
\* what has gone to the client
NewResponse(method) ==
    [ head        |-> method = "HEAD",
      header      |-> "",
      wroteHeader |-> FALSE,
      status      |-> 0,
      ctype       |-> "",
      body        |-> <<>> ]

\* response.WriteHeader: the first call fixes the status line and the
\* headers; a later call is superfluous and changes nothing
ResponseWriteHeader(w, code) ==
    IF w.wroteHeader THEN w
    ELSE [ head        |-> w.head,
           header      |-> w.header,
           wroteHeader |-> TRUE,
           status      |-> code,
           ctype       |-> IF w.header = "" THEN "sniffed" ELSE w.header,
           body        |-> w.body ]

\* response.Write: an implicit WriteHeader(200), then the bytes (none for HEAD)
ResponseWrite(w, chunk) ==
    IF w.head THEN ResponseWriteHeader(w, 200)
    ELSE [ResponseWriteHeader(w, 200) EXCEPT !.body = Append(@, chunk)]

\* the server ends a response whose handler wrote nothing with status 200
ResponseFinish(w) == ResponseWriteHeader(w, 200)

\* rw := &responseWriter{ResponseWriter: w, status: http.StatusOK}
NewResponseWriter(w) == [w |-> w, status |-> 200]

WriteHeader(rw, code) ==
    [rw EXCEPT !.status = code, !.w = ResponseWriteHeader(@, code)]

\* Write and Header are promoted from the embedded http.ResponseWriter
Write(rw, chunk) == [rw EXCEPT !.w = ResponseWrite(@, chunk)]

SetContentType(rw, ct) == [rw EXCEPT !.w.header = ct]

\* a write of fixed text
Text(msg) == [text |-> msg]

\* http.Error
Error(rw, msg, code) ==
    Write(WriteHeader(SetContentType(rw, "text/plain; charset=utf-8"), code),
          Text(msg))

---------------------------------------------------------------------------
(* The handlers: part_000 lines 123-167.  Each yields the responseWriter
   after it, the lines it logged and the Handler it leaves. *)

Result(rw, logs, hd) == [rw |-> rw, logs |-> logs, h |-> hd]

RECURSIVE WriteParts(_, _, _, _)
\* the first n writes of template `name` executed against `data`
WriteParts(rw, name, data, n) ==
    IF n = 0 THEN rw
    ELSE Write(WriteParts(rw, name, data, n - 1),
               [tmpl |-> name, part |-> n, data |-> data])

execute(hd, rw, name, data, x) ==
    LET rw1 == WriteParts(rw, name, data, x.after)
    IN  IF x.fails
        THEN Result(Error(rw1, "internal server error", 500),
                    <<[line |-> "template error", name |-> name]>>, hd)
        ELSE Result(rw1, <<>>, hd)

Index(hd, rw, r, x) == execute(hd, rw, "base", hd.pageData, x)

About(hd, rw, r, x) == execute(hd, rw, "about", hd.pageData, x)

\* Projects dropping the first project from the shared list as it renders
ProjectsConsuming(hd, rw, r, x) ==
    execute([hd EXCEPT !.pageData.Projects = Tail(@)], rw, "projects",
            hd.pageData, x)

Projects(hd, rw, r, x) == execute(hd, rw, "projects", hd.pageData, x)

Interests(hd, rw, r, x) == execute(hd, rw, "interests", hd.pageData, x)

\* Request.ParseForm: the URL's query, and for POST the body when its media
\* type is application/x-www-form-urlencoded; a body of another media type
\* is left unread and is no error
ParseForm(r) ==
    LET f == r.form
        ctErr  == f.ct = "malformed"
        isForm == f.ct = FormEncoded
    IN  [ err  |-> ~f.queryOk \/ ctErr \/ (isForm /\ ~f.bodyOk),
          form |-> IF isForm /\ f.bodyOk THEN f.fields ELSE <<>> ]

\* Request.FormValue on a parsed form
FormValue(form, key) == IF key \in DOMAIN form THEN form[key] ELSE ""

SuccessFragment == Text("<div class=\"contact-success\">")

\* Contact logging the message itself
ContactLoggingMessage(hd, rw, r, x) ==
    LET pf == ParseForm(r)
    IN  IF pf.err THEN Result(Error(rw, "bad request", 400), <<>>, hd)
        ELSE Result(Write(SetContentType(rw, "text/html; charset=utf-8"),
                          SuccessFragment),
                    <<[ line |-> "contact form submission",
                        name |-> FormValue(pf.form, "name"),
                        email |-> FormValue(pf.form, "email"),
                        message |-> FormValue(pf.form, "message"),
                        message_len |-> Len(FormValue(pf.form, "message")) ]>>,
                    hd)

\* Contact answering a form it could not parse like one it could
ContactIgnoringParseError(hd, rw, r, x) ==
    LET pf == ParseForm(r)
    IN  Result(Write(SetContentType(rw, "text/html; charset=utf-8"),
                     SuccessFragment),
               <<[ line |-> "contact form submission",
                   name |-> FormValue(pf.form, "name"),
                   email |-> FormValue(pf.form, "email"),
                   message_len |-> Len(FormValue(pf.form, "message")) ]>>,
               hd)

Contact(hd, rw, r, x) ==
    LET pf == ParseForm(r)
    IN  IF pf.err THEN Result(Error(rw, "bad request", 400), <<>>, hd)
        ELSE Result(Write(SetContentType(rw, "text/html; charset=utf-8"),
                          SuccessFragment),
                    <<[ line |-> "contact form submission",
                        name |-> FormValue(pf.form, "name"),
                        email |-> FormValue(pf.form, "email"),
                        message_len |-> Len(FormValue(pf.form, "message")) ]>>,
                    hd)

Health(hd, rw, r, x) == Result(WriteHeader(rw, 200), <<>>, hd)

\* http.StripPrefix("/static/", http.FileServerFS(staticFS))
Static(hd, rw, r, x) ==
    LET name == SubSeq(r.path, 2, Len(r.path))
    IN  IF name \in StaticFiles
        THEN Result(Write(WriteHeader(SetContentType(rw, "by extension"), 200),
                          [file |-> name]), <<>>, hd)
        ELSE Result(Error(rw, "404 page not found", 404), <<>>, hd)

---------------------------------------------------------------------------
(* Routing: main.go lines 52-59, dispatched by http.ServeMux *)

\* the patterns in registration order; `multi` marks a pattern ending in "/"
Routes ==
    << [method |-> "GET",  segs |-> <<>>,                       multi |-> TRUE,  to |-> "Index"],
       [method |-> "GET",  segs |-> <<"partials", "about">>,     multi |-> FALSE, to |-> "About"],
       [method |-> "GET",  segs |-> <<"partials", "projects">>,  multi |-> FALSE, to |-> "Projects"],
       [method |-> "GET",  segs |-> <<"partials", "interests">>, multi |-> FALSE, to |-> "Interests"],
       [method |-> "POST", segs |-> <<"contact">>,               multi |-> FALSE, to |-> "Contact"],
       [method |-> "GET",  segs |-> <<"health">>,                multi |-> FALSE, to |-> "Health"],
       [method |-> "GET",  segs |-> <<"static">>,                multi |-> TRUE,  to |-> "Static"] >>

RECURSIVE CleanSegs(_, _)
CleanSegs(p, acc) ==
    IF p = <<>> THEN acc
    ELSE LET s == Head(p)
             rest == Tail(p)
         IN  IF s = "" /\ rest # <<>> THEN CleanSegs(rest, acc)
             ELSE IF s = "." THEN CleanSegs(rest, acc)
             ELSE IF s = ".."
             THEN CleanSegs(rest, IF acc = <<>> THEN acc
                                  ELSE SubSeq(acc, 1, Len(acc) - 1))
             ELSE CleanSegs(rest, Append(acc, s))

\* net/http cleanPath: no empty, "." or ".." segment, a trailing slash kept
cleanPath(p) ==
    LET c == CleanSegs(p, <<>>) IN IF c = <<>> THEN <<"">> ELSE c

\* a pattern ending in "/" matches every path below it; another, one path
MatchesPath(pat, p) ==
    IF pat.multi
    THEN Len(p) > Len(pat.segs) /\ SubSeq(p, 1, Len(pat.segs)) = pat.segs
    ELSE p = pat.segs

\* a pattern matching the request's method alone
MatchesMethodExactly(pat, m) == pat.method = m

\* a GET pattern matches HEAD too
MatchesMethod(pat, m) == pat.method = m \/ (pat.method = "GET" /\ m = "HEAD")

\* routingNode.match: the most specific pattern that matches method and path
\* (0 when none does)
match(m, p) ==
    LET fits == { i \in 1..Len(Routes) :
                    MatchesMethod(Routes[i], m) /\ MatchesPath(Routes[i], p) }
        best(i) == \A j \in fits :
                     \/ ~Routes[i].multi
                     \/ (Routes[j].multi
                         /\ Len(Routes[j].segs) <= Len(Routes[i].segs))
    IN  IF fits = {} THEN 0 ELSE CHOOSE i \in fits : best(i)

\* exactMatch: the pattern matches the path without its trailing wildcard
\* taking anything
exactMatch(n, p) ==
    IF n = 0 THEN FALSE
    ELSE IF ~Routes[n].multi THEN TRUE
    ELSE IF p[Len(p)] # "" THEN FALSE
    ELSE Len(Routes[n].segs) + 1 = Len(p)

\* ServeMux.matchOrRedirect: "/tree" is redirected to "/tree/" when only the
\* latter is registered
matchOrRedirect(m, p) ==
    LET n  == match(m, p)
        p2 == Append(p, "")
    IN  IF ~exactMatch(n, p) /\ p[Len(p)] # "" /\ exactMatch(match(m, p2), p2)
        THEN [redirect |-> TRUE, n |-> 0]
        ELSE [redirect |-> FALSE, n |-> n]

\* ServeMux.findHandler: what the request is dispatched to
findHandler(r) ==
    LET path == cleanPath(r.path)
        mr   == matchOrRedirect(r.method, path)
    IN  IF mr.redirect THEN "Redirect"
        ELSE IF path # r.path THEN "Redirect"
        ELSE IF mr.n # 0 THEN Routes[mr.n].to
        ELSE IF \E i \in 1..Len(Routes) : MatchesPath(Routes[i], path)
        THEN "MethodNotAllowed"
        ELSE "NotFound"

\* http.Redirect with StatusMovedPermanently
Redirect(hd, rw, r, x) ==
    LET rw1 == WriteHeader(SetContentType(rw, "text/html; charset=utf-8"), 301)
    IN  Result(IF r.method = "GET" THEN Write(rw1, Text("Moved Permanently")) ELSE rw1,
               <<>>, hd)

MethodNotAllowed(hd, rw, r, x) ==
    Result(Error(rw, "Method Not Allowed", 405), <<>>, hd)

NotFound(hd, rw, r, x) == Result(Error(rw, "404 page not found", 404), <<>>, hd)

HandlerNames ==
    {"Index", "About", "Projects", "Interests", "Contact", "Health"}

\* the handlers that execute a template
Renders == {"Index", "About", "Projects", "Interests"}

\* mux.ServeHTTP
ServeMux(hd, rw, r, x) ==
    LET to == findHandler(r)
    IN  CASE to = "Index" -> Index(hd, rw, r, x)
          [] to = "About" -> About(hd, rw, r, x)
          [] to = "Projects" -> Projects(hd, rw, r, x)
          [] to = "Interests" -> Interests(hd, rw, r, x)
          [] to = "Contact" -> Contact(hd, rw, r, x)
          [] to = "Health" -> Health(hd, rw, r, x)
          [] to = "Static" -> Static(hd, rw, r, x)
          [] to = "Redirect" -> Redirect(hd, rw, r, x)
          [] to = "MethodNotAllowed" -> MethodNotAllowed(hd, rw, r, x)
          [] OTHER -> NotFound(hd, rw, r, x)

\* loggingMiddleware: main.go lines 27-34.  The access line is logged after
\* next.ServeHTTP returns, from rw.status.
loggingMiddleware(hd, r, x) ==
    LET rw  == NewResponseWriter(NewResponse(r.method))
        res == ServeMux(hd, rw, r, x)
    IN  [ resp  |-> ResponseFinish(res.rw.w),
          lines |-> Append(res.logs,
                           [ line |-> "access", method |-> r.method,
                             path |-> r.path, status |-> res.rw.status ]),
          h     |-> res.h ]

---------------------------------------------------------------------------
(* The process: main.go lines 36-89 *)

NoExchange == [none |-> TRUE]

Fatal(at, line) ==
    /\ exit' = at
    /\ log' = log \cup {line}
    /\ mainPc' = "exited"

MainNew ==
    /\ exit = "running" /\ mainPc = "new"
    /\ LET r == New(fsys)
       IN  IF r.err # ""
           THEN /\ Fatal("fatal_init", "failed to initialize handler: " \o r.err)
                /\ h' = r.h
           ELSE /\ h' = r.h
                /\ mainPc' = "sub"
                /\ UNCHANGED <<exit, log>>
    /\ UNCHANGED <<fsys, srvPc, listener, inShutdown, stop, ctxDone, active,
                   idle, last>>

\* main.go 47-50 without the check of fs.Sub's error
MainSubUnchecked ==
    /\ exit = "running" /\ mainPc = "sub"
    /\ mainPc' = "setup"
    /\ UNCHANGED <<fsys, h, srvPc, listener, inShutdown, stop, ctxDone, exit,
                   log, active, idle, last>>

\* main.go 47-50: staticFS, err := fs.Sub(portfolio.FS, "static")
MainSub ==
    /\ exit = "running" /\ mainPc = "sub"
    /\ IF ~fsys.staticOk
       THEN Fatal("fatal_static", "failed to create static sub-FS")
       ELSE /\ mainPc' = "setup"
            /\ UNCHANGED <<exit, log>>
    /\ UNCHANGED <<fsys, h, srvPc, listener, inShutdown, stop, ctxDone,
                   active, idle, last>>

\* main.go 52-77: the mux, the server, signal.Notify, and the go statement
MainSetup ==
    /\ exit = "running" /\ mainPc = "setup"
    /\ mainPc' = "wait"
    /\ srvPc' = "start"
    /\ UNCHANGED <<fsys, h, listener, inShutdown, stop, ctxDone, exit, log,
                   active, idle, last>>

\* SIGINT or SIGTERM reaches the process once signal.Notify has registered
\* `stop`; the channel buffers one signal and drops the rest
Signal ==
    /\ exit = "running" /\ mainPc \in {"wait", "call", "shutdown"}
    /\ stop' = TRUE
    /\ UNCHANGED <<fsys, mainPc, h, srvPc, listener, inShutdown, ctxDone,
                   exit, log, active, idle, last>>

\* main.go 79-80: <-stop, then "shutting down..."
MainReceive ==
    /\ exit = "running" /\ mainPc = "wait" /\ stop
    /\ stop' = FALSE
    /\ log' = log \cup {"shutting down..."}
    /\ mainPc' = "call"
    /\ UNCHANGED <<fsys, h, srvPc, listener, inShutdown, ctxDone, exit,
                   active, idle, last>>

ShutdownBegin ==
    /\ exit = "running" /\ mainPc = "call"
    /\ inShutdown' = TRUE
    /\ listener' = IF srvPc = "accept" /\ listener = "open"
                   THEN "closed" ELSE listener
    /\ mainPc' = "shutdown"
    /\ UNCHANGED <<fsys, h, srvPc, stop, ctxDone, exit, log, active, idle,
                   last>>

\* the deadline of the shutdown context passes
Deadline ==
    /\ exit = "running" /\ mainPc \in {"shutdown", "polling"} /\ ~ctxDone
    /\ ctxDone' = TRUE
    /\ UNCHANGED <<fsys, mainPc, h, srvPc, listener, inShutdown, stop, exit,
                   log, active, idle, last>>

\* a Shutdown that returns nil although a request is in flight
ShutdownIdleUnchecked ==
    /\ exit = "running" /\ mainPc = "shutdown" /\ srvPc # "accept"
    /\ idle' = 0
    /\ exit' = "ok"
    /\ log' = log \cup {"server stopped"}
    /\ mainPc' = "exited"
    /\ UNCHANGED <<fsys, h, srvPc, listener, inShutdown, stop, ctxDone,
                   active, last>>

\* main.go 85-89: Shutdown, once Serve has returned, polls: closeIdleConns
\* closes the idle connections and finds none busy; Shutdown returns nil,
\* main logs "server stopped" and returns
ShutdownIdle ==
    /\ exit = "running" /\ mainPc = "shutdown" /\ srvPc # "accept"
    /\ active = 0
    /\ idle' = 0
    /\ exit' = "ok"
    /\ log' = log \cup {"server stopped"}
    /\ mainPc' = "exited"
    /\ UNCHANGED <<fsys, h, srvPc, listener, inShutdown, stop, ctxDone,
                   active, last>>

\* a poll finds a request in flight: the idle connections are closed and
\* Shutdown waits for the deadline or the next poll
ShutdownBusy ==
    /\ exit = "running" /\ mainPc = "shutdown" /\ srvPc # "accept"
    /\ active > 0
    /\ idle' = 0
    /\ mainPc' = "polling"
    /\ UNCHANGED <<fsys, h, srvPc, listener, inShutdown, stop, ctxDone, exit,
                   log, active, last>>

\* the poll timer fires
ShutdownTick ==
    /\ exit = "running" /\ mainPc = "polling"
    /\ mainPc' = "shutdown"
    /\ UNCHANGED <<fsys, h, srvPc, listener, inShutdown, stop, ctxDone, exit,
                   log, active, idle, last>>

\* main.go 85-87: the context is done while Shutdown waits; Shutdown returns
\* its error and main calls log.Fatalf
ShutdownTimeout ==
    /\ exit = "running" /\ mainPc = "polling" /\ ctxDone
    /\ Fatal("fatal_shutdown", "shutdown error: context deadline exceeded")
    /\ UNCHANGED <<fsys, h, srvPc, listener, inShutdown, stop, ctxDone,
                   active, idle, last>>

---------------------------------------------------------------------------
(* The serving goroutine: main.go lines 72-77, with srv.ListenAndServe *)

\* main.go 73
ServeLog ==
    /\ exit = "running" /\ srvPc = "start"
    /\ log' = log \cup {"server listening"}
    /\ srvPc' = "call"
    /\ UNCHANGED <<fsys, mainPc, h, listener, inShutdown, stop, ctxDone,
                   exit, active, idle, last>>

\* ListenAndServe begins: ErrServerClosed at once when the server is
\* shutting down, which the goroutine does not treat as an error
ServeCall ==
    /\ exit = "running" /\ srvPc = "call"
    /\ srvPc' = IF inShutdown THEN "returned" ELSE "listen"
    /\ UNCHANGED <<fsys, mainPc, h, listener, inShutdown, stop, ctxDone,
                   exit, log, active, idle, last>>

\* net.Listen succeeds
ListenOk ==
    /\ exit = "running" /\ srvPc = "listen"
    /\ listener' = "open"
    /\ srvPc' = "listened"
    /\ UNCHANGED <<fsys, mainPc, h, inShutdown, stop, ctxDone, exit, log,
                   active, idle, last>>

\* net.Listen fails (the port is taken): main.go 74-75, log.Fatalf
ListenFail ==
    /\ exit = "running" /\ srvPc = "listen"
    /\ exit' = "fatal_server"
    /\ log' = log \cup {"server error: listen"}
    /\ srvPc' = "returned"
    /\ UNCHANGED <<fsys, mainPc, h, listener, inShutdown, stop, ctxDone,
                   active, idle, last>>

\* Serve registers the listener, or closes it and returns ErrServerClosed
\* when Shutdown has begun meanwhile
ServeTrack ==
    /\ exit = "running" /\ srvPc = "listened"
    /\ IF inShutdown
       THEN listener' = "closed" /\ srvPc' = "returned"
       ELSE listener' = listener /\ srvPc' = "accept"
    /\ UNCHANGED <<fsys, mainPc, h, inShutdown, stop, ctxDone, exit, log,
                   active, idle, last>>

\* the accept loop takes a connection; its request is in flight
Accept ==
    /\ exit = "running" /\ srvPc = "accept" /\ listener = "open"
    /\ active + idle < MaxConns
    /\ active' = active + 1
    /\ UNCHANGED <<fsys, mainPc, h, srvPc, listener, inShutdown, stop,
                   ctxDone, exit, log, idle, last>>

\* the goroutine treating ErrServerClosed as a server error
ServeReturnFatal ==
    /\ exit = "running" /\ srvPc = "accept" /\ listener = "closed"
    /\ exit' = "fatal_server"
    /\ log' = log \cup {"server error: http: Server closed"}
    /\ srvPc' = "returned"
    /\ UNCHANGED <<fsys, mainPc, h, listener, inShutdown, stop, ctxDone,
                   active, idle, last>>

\* Shutdown has closed the listener: Serve returns ErrServerClosed, and the
\* goroutine ends without logging (main.go 74)
ServeReturn ==
    /\ exit = "running" /\ srvPc = "accept" /\ listener = "closed"
    /\ srvPc' = "returned"
    /\ UNCHANGED <<fsys, mainPc, h, listener, inShutdown, stop, ctxDone,
                   exit, log, active, idle, last>>

\* the executions a request can meet: only a render can fail
ExecutionsOf(r) ==
    IF findHandler(r) \in Renders THEN Executions
    ELSE { [fails |-> FALSE, after |-> MaxWrites] }

\* one connection's request, one of R, goes through srv.Handler: the logging
\* wrapper, the mux and the handler; the response and the log lines are out
\* when it returns, and the connection is idle
ServeHTTP(R) ==
    /\ exit = "running" /\ active > 0
    /\ \E r \in R : \E x \in ExecutionsOf(r) :
         \E out \in {loggingMiddleware(h, r, x)} :
             /\ last' = [ none |-> FALSE, req |-> r, x |-> x,
                          to |-> findHandler(r), resp |-> out.resp,
                          lines |-> out.lines ]
             /\ h' = out.h
    /\ active' = active - 1
    /\ idle' = idle + 1
    /\ UNCHANGED <<fsys, mainPc, srvPc, listener, inShutdown, stop, ctxDone,
                   exit, log>>

\* the client, or the idle timeout, closes an idle connection
ConnClose ==
    /\ exit = "running" /\ idle > 0
    /\ idle' = idle - 1
    /\ UNCHANGED <<fsys, mainPc, h, srvPc, listener, inShutdown, stop,
                   ctxDone, exit, log, active, last>>

---------------------------------------------------------------------------
(* The whole process, from the start of main *)

\* the requests sent while the process is followed from start to exit: the
\* page, the health check and a contact form
Probes ==
    { [method |-> "GET", path |-> RootPath, form |-> NoForm],
      [method |-> "GET", path |-> HealthPath, form |-> NoForm],
      [method |-> "POST", path |-> ContactPath,
       form |-> [ct |-> FormEncoded, bodyOk |-> TRUE, queryOk |-> TRUE,
                 fields |-> FullFields]] }

Init ==
    /\ fsys \in FileSystems
    /\ mainPc = "new"
    /\ h = NoHandler
    /\ srvPc = "none"
    /\ listener = "none"
    /\ inShutdown = FALSE
    /\ stop = FALSE
    /\ ctxDone = FALSE
    /\ exit = "running"
    /\ log = {}
    /\ active = 0
    /\ idle = 0
    /\ last = NoExchange

Next ==
    \/ MainNew
    \/ MainSub
    \/ MainSetup
    \/ Signal
    \/ MainReceive
    \/ ShutdownBegin
    \/ Deadline
    \/ ShutdownIdle
    \/ ShutdownBusy
    \/ ShutdownTick
    \/ ShutdownTimeout
    \/ ServeLog
    \/ ServeCall
    \/ ListenOk
    \/ ListenFail
    \/ ServeTrack
    \/ Accept
    \/ ServeReturn
    \/ ServeHTTP(Probes)
    \/ ConnClose

Spec == Init /\ [][Next]_vars

\* main and the serving goroutine are scheduled while they can run, the
\* deadline passes, and a select with the context done takes that case
Fairness ==
    /\ WF_vars(MainReceive)
    /\ WF_vars(ShutdownBegin)
    /\ WF_vars(Deadline)
    /\ WF_vars(ShutdownIdle)
    /\ WF_vars(ShutdownBusy)
    /\ SF_vars(ShutdownTimeout)
    /\ WF_vars(ServeTrack)
    /\ WF_vars(ServeReturn)

FairSpec == Spec /\ Fairness

---------------------------------------------------------------------------
(* The server while it serves: every request, and no signal *)

\* the embedded tree with every file well formed
BundledFS ==
    [ tmplOk |-> TRUE, staticOk |-> TRUE,
      data |-> [f \in Fixtures |-> File(f, "ok")] ]

\* the state main.go 36-77 reaches with the bundled files once the serving
\* goroutine is in its accept loop
InitServing ==
    /\ fsys = BundledFS
    /\ mainPc = "wait"
    /\ h = New(BundledFS).h
    /\ srvPc = "accept"
    /\ listener = "open"
    /\ inShutdown = FALSE
    /\ stop = FALSE
    /\ ctxDone = FALSE
    /\ exit = "running"
    /\ log = {"server listening"}
    /\ active = 0
    /\ idle = 0
    /\ last = NoExchange

NextServing ==
    \/ Accept
    \/ ServeHTTP(Requests)
    \/ ConnClose

ServingSpec == InitServing /\ [][NextServing]_vars

---------------------------------------------------------------------------
(* Start-up *)

\* data/<f>.json cannot be loaded: it is absent, or its first JSON value is
\* malformed or does not fit the Go type
Unloadable(fs, f) ==
    \/ ~fs.data[f].exists
    \/ ~fs.data[f].syntaxOk
    \/ ~fs.data[f].typeOk

\* template parsing or one of the five loads fails
NewFails(fs) == ~fs.tmplOk \/ \E f \in Fixtures : Unloadable(fs, f)

\* one of the start-up steps fails
StartupFails(fs) == NewFails(fs) \/ ~fs.staticOk

\* the listener has been opened, or a request has been taken or answered
Served == listener # "none" \/ active > 0 \/ idle > 0 \/ last # NoExchange

\* C1 as claimed: when template parsing, a fixture load or the static
\* sub-tree construction fails, handler.New returns no Handler and the
\* process exits fatally with the listener never opened; and nothing is
\* served before every step has succeeded.
C1_Original ==
    /\ (StartupFails(fsys) /\ mainPc = "exited")
          => /\ h = NoHandler
             /\ exit \in {"fatal_init", "fatal_static"}
             /\ ~Served
    /\ Served => (~StartupFails(fsys) /\ mainPc \notin {"new", "sub", "setup"})

\* C1 amended: handler.New returns no Handler exactly when template parsing
\* or a fixture load fails, and main then exits fatally at once; when only
\* the static sub-tree construction fails New has returned a Handler and
\* main exits fatally at the next step; in both cases the listener is never
\* opened, and nothing is served before every step has succeeded.
C1_Startup ==
    /\ mainPc # "new" => (h = NoHandler <=> NewFails(fsys))
    /\ (NewFails(fsys) /\ mainPc # "new")
          => (mainPc = "exited" /\ exit = "fatal_init")
    /\ (~NewFails(fsys) /\ ~fsys.staticOk /\ mainPc \notin {"new", "sub"})
          => (mainPc = "exited" /\ exit = "fatal_static" /\ h # NoHandler)
    /\ StartupFails(fsys) => (~Served /\ srvPc = "none")
    /\ Served => (h # NoHandler /\ mainPc \notin {"new", "sub", "setup"})

\* the static sub-tree construction alone failed: New had returned a Handler
C1_Witness ==
    /\ mainPc = "exited" /\ exit = "fatal_static"
    /\ h # NoHandler
    /\ listener = "none"

\* the file's JSON is no valid document, or one of its objects lacks a key
InvalidOrIncomplete(fs, f) ==
    \/ ~fs.data[f].syntaxOk
    \/ fs.data[f].trailing
    \/ fs.data[f] = File(f, "missing")

\* the record a JSON object decodes to when no key is required
WithZeroValues(f, obj) ==
    [k \in Keys(f) |-> IF k \in DOMAIN obj THEN obj[k] ELSE ZeroVal(f, k)]

\* what a handler built from fs holds for fixture f
Loaded(fs, f) ==
    LET json == fs.data[f].json
    IN  CASE f = "about" -> WithZeroValues(f, json)
          [] f = "skills" -> json
          [] OTHER -> [i \in 1..Len(json) |-> WithZeroValues(f, json[i])]

HeldFor(hd, f) ==
    CASE f = "about" -> hd.pageData.About
      [] f = "projects" -> hd.pageData.Projects
      [] f = "interests" -> hd.pageData.Interests
      [] f = "skills" -> hd.pageData.Skills
      [] OTHER -> hd.pageData.Experience

---------------------------------------------------------------------------
(* Requests *)

AccessLines(lines) == SelectSeq(lines, LAMBDA l : l.line = "access")

ContactLines(lines) ==
    SelectSeq(lines, LAMBDA l : l.line = "contact form submission")

TemplateErrors(lines) == SelectSeq(lines, LAMBDA l : l.line = "template error")

\* C3 as claimed: when a template execution fails, the error is logged once
\* and the client receives status 500, however much had been written.
C3_Original ==
    (last # NoExchange /\ last.to \in Renders /\ last.x.fails)
        => /\ last.resp.status = 500
           /\ Len(TemplateErrors(last.lines)) = 1

\* C4 as claimed: one access line per request, logged last, whose status is
\* the status the client received.
C4_Original ==
    last # NoExchange
        => /\ Len(AccessLines(last.lines)) = 1
           /\ last.lines[Len(last.lines)].line = "access"
           /\ last.lines[Len(last.lines)].status = last.resp.status

\* the body is not form-encoded, or cannot be parsed
NotAForm(form) == form.ct # FormEncoded \/ ~form.bodyOk

Unparseable(form) ==
    \/ ~form.queryOk
    \/ form.ct = "malformed"
    \/ (form.ct = FormEncoded /\ ~form.bodyOk)

Posted(form, key) ==
    IF form.ct = FormEncoded /\ key \in DOMAIN form.fields
    THEN form.fields[key] ELSE ""

\* C8: every POST /contact whose form parses is answered 200, text/html,
\* with the fixed success fragment; one submission line is logged, holding
\* the name, the email and the length of the message and nothing else, and
\* the Handler is left as New built it.
C8_Contact ==
    (last # NoExchange /\ last.to = "Contact" /\ ~ParseForm(last.req).err)
        => /\ last.resp.status = 200
           /\ last.resp.ctype = "text/html; charset=utf-8"
           /\ last.resp.body = <<SuccessFragment>>
           /\ ContactLines(last.lines) =
                << [ line |-> "contact form submission",
                     name |-> Posted(last.req.form, "name"),
                     email |-> Posted(last.req.form, "email"),
                     message_len |->
                        Len(Posted(last.req.form, "message")) ] >>
           /\ Len(last.lines) = 2
           /\ h = New(fsys).h

\* the form name=Jane&email=jane@x.com&message=hi was posted and answered
C8_Witness ==
    /\ last # NoExchange /\ last.to = "Contact"
    /\ last.req.form.ct = FormEncoded
    /\ last.req.form.bodyOk /\ last.req.form.queryOk
    /\ last.req.form.fields = FullFields
    /\ last.resp.status = 200
    /\ ContactLines(last.lines)[1].message_len = 2

\* C9: the Handler is what New returned, whatever requests have been served
\* and are in flight, and every part a render writes shows that pageData.
C9_Immutable ==
    /\ h = New(fsys).h
    /\ (last # NoExchange /\ last.to \in Renders)
          => \A i \in 1..Len(last.resp.body) :
                "data" \in DOMAIN last.resp.body[i]
                    => last.resp.body[i].data = New(fsys).h.pageData

\* a render has completed while another request is in flight
C9_Witness ==
    /\ last # NoExchange /\ last.to = "Projects" /\ ~last.x.fails
    /\ last.req.method = "GET"
    /\ active > 0 /\ idle > 0

\* the path lies under /static/
UnderStatic(p) == Len(p) > 1 /\ p[1] = "static"

Partials == {AboutPath, ProjectsPath, InterestsPath, HealthPath}

FullPage(resp, hd) ==
    /\ resp.status = 200
    /\ ~resp.head
          => resp.body = [i \in 1..MaxWrites |->
                            [tmpl |-> "base", part |-> i, data |-> hd.pageData]]

---------------------------------------------------------------------------
(* Shutdown *)

Received == "shutting down..." \in log

\* C5 as claimed: after the signal the listener is closed only once the
\* request in flight has been answered.
C5_Original == listener = "closed" => active = 0

\* C5 amended: the listener is closed first, when Shutdown begins, and a
\* request in flight at that moment is still answered; Shutdown returns nil
\* and the process stops cleanly only when no request is in flight, and ends
\* with the fatal shutdown error only after the 10-second window has expired.
C5_Shutdown ==
    /\ (mainPc \in {"shutdown", "polling"} /\ srvPc = "accept")
          => listener = "closed"
    /\ (mainPc = "polling" /\ idle > 0) => listener # "open"
    /\ exit = "ok" => (active = 0 /\ Received)
    /\ exit = "fatal_shutdown" => ctxDone

\* a request answered after the listener was closed and within the window:
\* Shutdown's poll closed every idle connection when it found one busy
C5_Witness ==
    /\ mainPc = "polling" /\ listener = "closed"
    /\ idle > 0
    /\ ~ctxDone

\* C6 as claimed: once the signal is received the process ends in one of two
\* ways: every request finished, Shutdown returned nil and "server stopped"
\* is logged; or the window expired with a request in flight, and the
\* shutdown error is fatal with no "server stopped".
C6_Original ==
    (Received /\ exit # "running")
        => \/ /\ exit = "ok" /\ active = 0
              /\ "server stopped" \in log
           \/ /\ exit = "fatal_shutdown" /\ ctxDone /\ active > 0
              /\ "server stopped" \notin log

\* how the process can have ended once the signal is received
C6_Outcomes ==
    /\ (Received /\ exit # "running")
          => \/ /\ exit = "ok" /\ active = 0
                /\ log \cap {"server stopped", "server error: listen",
                             "shutdown error: context deadline exceeded"}
                     = {"server stopped"}
             \/ /\ exit = "fatal_shutdown" /\ ctxDone
                /\ log \cap {"server stopped", "server error: listen",
                             "shutdown error: context deadline exceeded"}
                     = {"shutdown error: context deadline exceeded"}
             \/ /\ exit = "fatal_server" /\ listener = "none"
                /\ log \cap {"server stopped", "server error: listen",
                             "shutdown error: context deadline exceeded"}
                     = {"server error: listen"}
    /\ exit = "fatal_server" => listener = "none"
    /\ "server error: http: Server closed" \notin log

\* C6 amended: once main has received the signal the process always
\* terminates, and once Shutdown has begun no connection is accepted.  It
\* ends in one of three ways: a poll of Shutdown finds no request in flight,
\* Shutdown returns nil and "server stopped" is logged; or the window expires
\* while Shutdown waits after a poll that found a request in flight, and the
\* shutdown error is fatal with no "server stopped"; or, the signal having
\* come before the serving goroutine opened its listener, net.Listen fails
\* and that error is fatal.  ErrServerClosed is never treated as fatal.
C6_Shutdown ==
    /\ []C6_Outcomes
    /\ [][inShutdown => active' <= active]_vars
    /\ (Received ~> exit # "running")

\* the window expired with a request in flight
C6_Witness ==
    /\ Received /\ exit = "fatal_shutdown"
    /\ active > 0
    /\ "server stopped" \notin log

====
